---- MODULE Spec2Model ----
(***************************************************************************)
(* State-machine model of the LighterWS streaming client                   *)
(* (src/sdk/core/lighter-ws.js): connection life cycle, reconnect backoff, *)
(* heartbeat, subscription registry, outbound queue and inbound routing.   *)
(*                                                                         *)
(* Every handler of the class is one action.  The browser runs handlers to *)
(* completion on one thread, so an action is the whole handler.            *)
(*                                                                         *)
(* Strings that are taken apart by the code (channel names and registry    *)
(* keys) are sequences of tokens: a token is either a separator, ":" or    *)
(* "/", or a piece of text holding no separator.                           *)
(***************************************************************************)
EXTENDS Integers, Sequences, FiniteSets, TLC

VARIABLES
    ws,                 \* this.ws: 0 is null, otherwise the slot of the socket
    sockets,            \* readyState of every socket the client has created
    subscriptions,      \* this.subscriptions: a Map, kept in insertion order
    reconnectAttempts,  \* this.reconnectAttempts
    isConnected,        \* this.isConnected
    shouldReconnect,    \* this.shouldReconnect
    isAuthenticated,    \* this.isAuthenticated
    messageQueue,       \* this.messageQueue
    heartbeatInterval,  \* this.heartbeatInterval: TRUE when the interval timer is set
    heartbeatDue,       \* time at which the interval timer fires next
    lastPongTime,       \* this.lastPongTime
    authToken,          \* this.authToken: 0 is null, n > 0 the n-th token issued
    authRefreshCallback,\* this.authRefreshCallback is set
    reconnectTimers,    \* number of pending setTimeout callbacks of attemptReconnect
    pendingRefresh,     \* number of connect() calls suspended at the await of the refresh
    now,                \* Date.now()
    hung,               \* a handler never returned (the event loop is blocked)
    wire,               \* frames the transport accepted during the last handler
    dropped,            \* frames the last handler discarded
    delivered,          \* callbacks the last handler invoked, in order
    lastDelay,          \* delay of the last setTimeout of attemptReconnect
    failures,           \* closes that called attemptReconnect since the last onopen
    atClose,            \* keys registered when the connection last closed
                        \* unexpectedly, and not unsubscribed since
    promise,            \* the promise of the connect() call behind every socket,
                        \* and at 0 of the call suspended at the refresh await
    lastOp              \* the last handler that ran: its name, its key argument,
                        \* its socket, the callbacks the key had before it ran,
                        \* and whether an exception left the handler

vars == <<ws, sockets, subscriptions, reconnectAttempts, isConnected,
          shouldReconnect, isAuthenticated, messageQueue, heartbeatInterval,
          heartbeatDue, lastPongTime, authToken, authRefreshCallback,
          reconnectTimers, pendingRefresh, now, hung, wire, dropped,
          delivered, lastDelay, failures, atClose, promise, lastOp>>

---------------------------------------------------------------------------
(* Program constants *)

reconnectDelay == 1000
maxReconnectDelay == 60000
Infinity == 1000000000
maxReconnectAttempts == Infinity
heartbeatIntervalMs == 30000
pongTimeoutMs == 90000

(* Bounds of the model *)

maxQueueSize == 2
MaxSockets == 2
MaxHandlers == 2
MaxTimers == 1
MaxPending == 1
MaxAttempts == 8
MaxTokens == 2
MaxPlanIdx == 3
MaxTicks == 5
MaxFailures == 1
TicksPerInterval == 1

---------------------------------------------------------------------------
(* Values *)

NoChannel == <<>>
Handlers == {"h1", "h2"}

\* `${channel}/${marketId}`
subscriptionChannel(channel, marketId) == channel \o <<"/">> \o <<marketId>>

ORDERBOOK == <<"order_book">>
ACCOUNT_ALL_ORDERS == <<"account_all_orders">>
ACCOUNT_ORDERS == <<"account_orders">>
CANDLES == <<"candles">>

Frame(t, c, k) == [type |-> t, channel |-> c, token |-> k]
AuthFrame(k) == Frame("auth", NoChannel, k)
SubscribeFrame(c, k) == Frame("subscribe", c, k)
UnsubscribeFrame(c) == Frame("unsubscribe", c, 0)
PingFrame == Frame("ping", NoChannel, 0)
PongFrame == Frame("pong", NoChannel, 0)

Min(a, b) == IF a < b THEN a ELSE b

RECURSIVE Pow2(_)
Pow2(n) == IF n <= 0 THEN 1 ELSE 2 * Pow2(n - 1)

---------------------------------------------------------------------------
(* The subscription Map: a sequence of [key, callbacks] in insertion order *)

MapHas(m, k) == \E i \in 1..Len(m) : m[i].key = k

\* Map.get: the callbacks of k, << >> standing for undefined
MapGet(m, k) ==
    IF MapHas(m, k) THEN m[CHOOSE i \in 1..Len(m) : m[i].key = k].callbacks
    ELSE <<>>

MapKeys(m) == {m[i].key : i \in 1..Len(m)}

RECURSIVE MapDelete(_, _)
MapDelete(m, k) ==
    IF m = <<>> THEN <<>>
    ELSE IF Head(m).key = k THEN MapDelete(Tail(m), k)
    ELSE <<Head(m)>> \o MapDelete(Tail(m), k)

\* MapPush with the list of a registered key overwritten: set(key, [callback])
MapPushReplace(m, k, cb) ==
    IF MapHas(m, k)
    THEN [i \in 1..Len(m) |->
            IF m[i].key = k
            THEN [m[i] EXCEPT !.callbacks = <<cb>>]
            ELSE m[i]]
    ELSE Append(m, [key |-> k, callbacks |-> <<cb>>])

\* if (!has(key)) set(key, []); get(key).push(callback)
MapPush(m, k, cb) ==
    IF MapHas(m, k)
    THEN [i \in 1..Len(m) |->
            IF m[i].key = k
            THEN [m[i] EXCEPT !.callbacks = Append(@, cb)]
            ELSE m[i]]
    ELSE Append(m, [key |-> k, callbacks |-> <<cb>>])

---------------------------------------------------------------------------
(* The transport.  ws.send throws on a null socket and on a socket that is *)
(* still connecting, is dropped without an error by a socket that is       *)
(* closing or closed, and on an open socket it is accepted unless the      *)
(* transport fails the write.  A plan names the writes of one handler that *)
(* fail, by their position in the handler; 0 in the plan fails them all.   *)

WriteMode(w, socks) ==
    IF w = 0 THEN "throw"
    ELSE IF socks[w] = "connecting" THEN "throw"
    ELSE IF socks[w] = "open" THEN "open"
    ELSE "discard"

Throws(mode, plan, i) ==
    \/ mode = "throw"
    \/ mode = "open" /\ (0 \in plan \/ i \in plan)

AlwaysThrows(mode, plan) ==
    \/ mode = "throw"
    \/ mode = "open" /\ 0 \in plan

Plans(n) == SUBSET (1..n) \cup {{0}}

\* What a handler has done so far: the queue, the frames written, the
\* number of ws.send calls, the frames discarded, and whether it hangs.
Begin(q) == [q |-> q, w |-> <<>>, n |-> 0, d |-> <<>>, hung |-> FALSE]

\* send without the check of the queue length
sendUnbounded(st, message, conn, mode, plan) ==
    IF ~conn
    THEN [st EXCEPT !.q = Append(@, message)]
    ELSE IF Throws(mode, plan, st.n + 1)
         THEN [st EXCEPT !.n = @ + 1, !.q = Append(@, message)]
         ELSE [st EXCEPT !.n = @ + 1,
                         !.w = IF mode = "open" THEN Append(@, message) ELSE @]

send(st, message, conn, mode, plan) ==
    IF ~conn
    THEN IF Len(st.q) < maxQueueSize
         THEN [st EXCEPT !.q = Append(@, message)]
         ELSE [st EXCEPT !.q = Append(Tail(@), message),
                         !.d = Append(@, Head(st.q))]
    ELSE IF Throws(mode, plan, st.n + 1)
         THEN IF Len(st.q) < maxQueueSize
              THEN [st EXCEPT !.n = @ + 1, !.q = Append(@, message)]
              ELSE [st EXCEPT !.n = @ + 1, !.d = Append(@, message)]
         ELSE [st EXCEPT !.n = @ + 1,
                         !.w = IF mode = "open" THEN Append(@, message) ELSE @]

RECURSIVE flushLoop(_, _, _)
flushLoop(st, mode, plan) ==
    IF Len(st.q) = 0 THEN st
    ELSE flushLoop(send([st EXCEPT !.q = Tail(@)], Head(st.q), TRUE, mode, plan),
                   mode, plan)

\* while (queue.length > 0) send(queue.shift()).  When every write throws,
\* each frame taken from the head is put back at the tail and the loop never
\* ends.
flushMessageQueue(st, mode, plan) ==
    IF Len(st.q) = 0 THEN st
    ELSE IF AlwaysThrows(mode, plan) THEN [st EXCEPT !.hung = TRUE]
    ELSE flushLoop(st, mode, plan)

RECURSIVE reverse(_)
reverse(s) == IF s = <<>> THEN <<>> ELSE reverse(Tail(s)) \o <<Head(s)>>

RECURSIVE resubscribeFrom(_, _, _, _, _)
resubscribeFrom(st, m, conn, mode, plan) ==
    IF m = <<>> THEN st
    ELSE resubscribeFrom(send(st, SubscribeFrame(Head(m).key, 0), conn, mode, plan),
                         Tail(m), conn, mode, plan)

\* resubscribeAll walking the registry from its newest entry
resubscribeAllNewestFirst(st, m, conn, mode, plan) ==
    resubscribeFrom(st, reverse(m), conn, mode, plan)

resubscribeAll(st, m, conn, mode, plan) == resubscribeFrom(st, m, conn, mode, plan)

---------------------------------------------------------------------------
(* What the last handler did, for the properties to read *)

\* caught: the callbacks whose exception the handler caught
LastOp(op, key, sock, threw, caught) ==
    [op |-> op, key |-> key, sock |-> sock,
     had |-> Len(MapGet(subscriptions, key)), threw |-> threw, caught |-> caught]

Observed(op, key, sock, st, cbs, delay, threw) ==
    /\ lastOp' = LastOp(op, key, sock, threw, {})
    /\ wire' = st.w
    /\ dropped' = st.d
    /\ delivered' = cbs
    /\ lastDelay' = delay

\* a handler that returns normally
Observe(op, key, sock, st, cbs, delay) ==
    Observed(op, key, sock, st, cbs, delay, FALSE)

Quiet(op) == Observe(op, NoChannel, 0, Begin(<<>>), <<>>, 0)

---------------------------------------------------------------------------
(* Sockets *)

SocketIds == 1..MaxSockets
\* A socket that is closed before it opened is "aborted": its readyState is
\* CLOSING like that of a closing socket, but it delivers no message.
Live(state) == state \in {"connecting", "open", "closing", "aborted"}

\* the state of a socket once it is being closed
closingFrom(state) == IF state = "connecting" THEN "aborted" ELSE "closing"
FreeSlots == {s \in SocketIds : ~Live(sockets[s])}

\* this.ws = new WebSocket(this.wsUrl)
NewSocket ==
    LET s == CHOOSE x \in FreeSlots : \A y \in FreeSlots : x <= y
    IN  /\ sockets' = [sockets EXCEPT ![s] = "connecting"]
        /\ ws' = s

\* ws.close() on socket w
closeSocket(socks, w) ==
    IF w # 0 /\ socks[w] \in {"connecting", "open"}
    THEN [socks EXCEPT ![w] = closingFrom(@)]
    ELSE socks

---------------------------------------------------------------------------
(* connect(): up to the creation of the socket, or to the await of the     *)
(* refresh callback                                                        *)

\* The promise connect() returns: not yet made, pending, resolved by onopen
\* or rejected by onerror; caller is TRUE for a connect() of the caller and
\* FALSE for the connect() of the reconnect timer, whose rejection is caught
NoPromise == [state |-> "none", caller |-> FALSE]
PendingPromise(byCaller) == [state |-> "pending", caller |-> byCaller]

\* settling a promise that is already settled changes nothing
settle(pr, outcome) ==
    IF pr.state = "pending" THEN [pr EXCEPT !.state = outcome] ELSE pr

\* connect that never refreshes the token
connectWithoutRefresh ==
    /\ shouldReconnect' = TRUE
    /\ FreeSlots # {}
    /\ NewSocket
    /\ UNCHANGED pendingRefresh

connect ==
    /\ shouldReconnect' = TRUE
    /\ IF reconnectAttempts > 0 /\ authRefreshCallback
       THEN /\ pendingRefresh < MaxPending
            /\ pendingRefresh' = pendingRefresh + 1
            /\ UNCHANGED <<ws, sockets>>
       ELSE /\ FreeSlots # {}
            /\ NewSocket
            /\ UNCHANGED pendingRefresh

\* the caller calls connect()
Connect ==
    /\ ~hung
    /\ connect
    /\ promise' = [promise EXCEPT
                      ![IF pendingRefresh' > pendingRefresh THEN 0 ELSE ws'] =
                          PendingPromise(TRUE)]
    /\ Quiet("connect")
    /\ UNCHANGED <<subscriptions, reconnectAttempts, isConnected, isAuthenticated,
                   messageQueue, heartbeatInterval, heartbeatDue, lastPongTime,
                   authToken, authRefreshCallback, reconnectTimers, now, hung,
                   failures,
                   atClose>>

\* connect() resumes after `await this.authRefreshCallback()`; the callback
\* returned a fresh token (ok) or threw
ConnectResume(ok) ==
    /\ ~hung
    /\ pendingRefresh > 0
    /\ FreeSlots # {}
    /\ ok => authToken < MaxTokens
    /\ pendingRefresh' = pendingRefresh - 1
    /\ authToken' = IF ok THEN authToken + 1 ELSE authToken
    /\ NewSocket
    /\ promise' = [promise EXCEPT ![ws'] = promise[0], ![0] = NoPromise]
    /\ Quiet("resume")
    /\ UNCHANGED <<subscriptions, reconnectAttempts, isConnected, shouldReconnect,
                   isAuthenticated, messageQueue, heartbeatInterval, heartbeatDue,
                   lastPongTime, authRefreshCallback, reconnectTimers, now, hung,
                   failures,
                   atClose>>

\* the setTimeout callback of attemptReconnect
ReconnectTimer ==
    /\ ~hung
    /\ reconnectTimers > 0
    /\ reconnectTimers' = reconnectTimers - 1
    /\ IF shouldReconnect
       THEN /\ connect
            /\ promise' = [promise EXCEPT
                              ![IF pendingRefresh' > pendingRefresh THEN 0 ELSE ws'] =
                                  PendingPromise(FALSE)]
       ELSE UNCHANGED <<shouldReconnect, ws, sockets, pendingRefresh, promise>>
    /\ Quiet("timer")
    /\ UNCHANGED <<subscriptions, reconnectAttempts, isConnected, isAuthenticated,
                   messageQueue, heartbeatInterval, heartbeatDue, lastPongTime,
                   authToken, authRefreshCallback, now, hung, failures,
                   atClose>>

---------------------------------------------------------------------------
(* ws.onopen of socket s *)

OnOpen(s, plan) ==
    /\ ~hung
    /\ sockets[s] = "connecting"
    /\ LET socks == [sockets EXCEPT ![s] = "open"]
           mode == WriteMode(ws, socks)
           st0 == Begin(messageQueue)
           st1 == IF authToken # 0
                  THEN send(st0, AuthFrame(authToken), TRUE, mode, plan)
                  ELSE st0
           st2 == IF Len(subscriptions) > 0
                  THEN resubscribeAll(st1, subscriptions, TRUE, mode, plan)
                  ELSE st1
           st3 == flushMessageQueue(st2, mode, plan)
       IN  /\ sockets' = socks
           /\ isConnected' = TRUE
           /\ reconnectAttempts' = 0
           /\ lastPongTime' = now
           /\ messageQueue' = st3.q
           /\ hung' = st3.hung
           /\ heartbeatInterval' = IF st3.hung THEN heartbeatInterval ELSE TRUE
           /\ heartbeatDue' = IF st3.hung THEN heartbeatDue
                              ELSE now + heartbeatIntervalMs
           /\ promise' = IF st3.hung THEN promise
                         ELSE [promise EXCEPT ![s] = settle(@, "resolved")]
           /\ Observe("onopen", NoChannel, s, st3, <<>>, 0)
    /\ failures' = 0
    /\ atClose' = {}
    /\ UNCHANGED <<ws, subscriptions, shouldReconnect, isAuthenticated, authToken,
                   authRefreshCallback, reconnectTimers, pendingRefresh, now>>

---------------------------------------------------------------------------
(* attemptReconnect and ws.onclose of socket s *)

\* backoffDelay with the exponent taken after the increment
backoffDelayOffByOne(attempts) ==
    Min(reconnectDelay * Pow2(attempts), maxReconnectDelay)

backoffDelay(attempts) ==
    Min(reconnectDelay * Pow2(attempts - 1), maxReconnectDelay)

\* TRUE when attemptReconnect goes on to schedule a reconnect
reconnectAllowed ==
    ~(~shouldReconnect \/ reconnectAttempts >= maxReconnectAttempts)

attemptReconnect ==
    IF reconnectAllowed
    THEN /\ reconnectAttempts' = reconnectAttempts + 1
         /\ reconnectTimers' = reconnectTimers + 1
         /\ lastDelay' = backoffDelay(reconnectAttempts + 1)
    ELSE /\ UNCHANGED <<reconnectAttempts, reconnectTimers>>
         /\ lastDelay' = 0

\* ws.onerror of socket s: reject(error).  The transport reports the failure
\* of a connection with an error event and closes it; the close event follows.
OnError(s) ==
    /\ ~hung
    /\ sockets[s] \in {"connecting", "open"}
    /\ sockets' = [sockets EXCEPT ![s] = closingFrom(@)]
    /\ promise' = [promise EXCEPT ![s] = settle(@, "rejected")]
    /\ Observe("onerror", NoChannel, s, Begin(messageQueue), <<>>, 0)
    /\ UNCHANGED <<ws, subscriptions, reconnectAttempts, isConnected,
                   shouldReconnect, isAuthenticated, messageQueue,
                   heartbeatInterval, heartbeatDue, lastPongTime, authToken,
                   authRefreshCallback, reconnectTimers, pendingRefresh, now,
                   hung, failures, atClose>>

OnClose(s, maxFail) ==
    /\ ~hung
    /\ Live(sockets[s])
    /\ shouldReconnect => failures < maxFail
    /\ (shouldReconnect /\ reconnectAllowed) => reconnectTimers < MaxTimers
    /\ sockets' = [sockets EXCEPT ![s] = "closed"]
    /\ isConnected' = FALSE
    /\ isAuthenticated' = FALSE
    /\ heartbeatInterval' = FALSE
    /\ IF shouldReconnect
       THEN /\ attemptReconnect
            /\ failures' = failures + 1
            /\ atClose' = IF isConnected THEN MapKeys(subscriptions) ELSE atClose
       ELSE /\ UNCHANGED <<reconnectAttempts, reconnectTimers, failures, atClose>>
            /\ lastDelay' = 0
    /\ lastOp' = LastOp("onclose", NoChannel, s, FALSE, {})
    /\ wire' = <<>>
    /\ dropped' = <<>>
    /\ delivered' = <<>>
    /\ heartbeatDue' = 0
    /\ UNCHANGED <<ws, subscriptions, shouldReconnect, messageQueue,
                   lastPongTime, authToken, authRefreshCallback, promise, pendingRefresh,
                   now, hung>>

---------------------------------------------------------------------------
(* disconnect() *)

\* disconnect without `this.messageQueue = []`
DisconnectKeepingQueue ==
    /\ ~hung
    /\ isConnected' = FALSE
    /\ shouldReconnect' = FALSE
    /\ isAuthenticated' = FALSE
    /\ reconnectAttempts' = maxReconnectAttempts
    /\ heartbeatInterval' = FALSE
    /\ subscriptions' = <<>>
    /\ UNCHANGED messageQueue
    /\ sockets' = closeSocket(sockets, ws)
    /\ ws' = 0
    /\ Observe("disconnect", NoChannel, 0,
               [Begin(<<>>) EXCEPT !.d = messageQueue], <<>>, 0)
    /\ heartbeatDue' = 0
    /\ atClose' = {}
    /\ UNCHANGED <<lastPongTime, authToken, authRefreshCallback, promise,
                   reconnectTimers, pendingRefresh, now, hung, failures>>

\* the frames of the queue are discarded
Disconnect ==
    /\ ~hung
    /\ isConnected' = FALSE
    /\ shouldReconnect' = FALSE
    /\ isAuthenticated' = FALSE
    /\ reconnectAttempts' = maxReconnectAttempts
    /\ heartbeatInterval' = FALSE
    /\ subscriptions' = <<>>
    /\ messageQueue' = <<>>
    /\ sockets' = closeSocket(sockets, ws)
    /\ ws' = 0
    /\ Observe("disconnect", NoChannel, 0,
               [Begin(<<>>) EXCEPT !.d = messageQueue], <<>>, 0)
    /\ heartbeatDue' = 0
    /\ atClose' = {}
    /\ UNCHANGED <<lastPongTime, authToken, authRefreshCallback, promise,
                   reconnectTimers, pendingRefresh, now, hung, failures>>

---------------------------------------------------------------------------
(* Registry operations of the caller *)

\* The values a caller may pass as marketId: undefined, null, the empty
\* string, or a text; the number 0 is the text "0" in the key template
Undefined == "<undefined>"
Null == "<null>"

\* the check with !marketId, which rejects 0 as well
invalidMarketIdFalsy(marketId) == marketId \in {Undefined, Null, "", "0"}

\* marketId === undefined || marketId === null || marketId === ''
invalidMarketId(marketId) == marketId \in {Undefined, Null, ""}

\* subscribe(channel, marketId, callback, auth); auth is 0 when not passed
Subscribe(channel, marketId, callback, auth, plan) ==
    LET key == subscriptionChannel(channel, marketId)
        valid == ~invalidMarketId(marketId)
        st == IF valid
              THEN send(Begin(messageQueue), SubscribeFrame(key, auth), isConnected,
                        WriteMode(ws, sockets), plan)
              ELSE Begin(messageQueue)
    IN  /\ ~hung
        /\ Len(MapGet(subscriptions, key)) < MaxHandlers
        /\ subscriptions' = IF valid THEN MapPush(subscriptions, key, callback)
                            ELSE subscriptions
        /\ messageQueue' = st.q
        /\ Observe("subscribe", key, 0, st, <<>>, 0)
        /\ UNCHANGED <<ws, sockets, reconnectAttempts, isConnected, shouldReconnect,
                       isAuthenticated, heartbeatInterval, heartbeatDue,
                       lastPongTime, authToken, authRefreshCallback, promise,
                       reconnectTimers, pendingRefresh, now, hung, failures,
                   atClose>>

\* subscribeAccountAllOrders(accountIndex, authToken, callback)
SubscribeAccountAllOrders(accountIndex, token, callback, plan) ==
    Subscribe(ACCOUNT_ALL_ORDERS, accountIndex, callback, token, plan)

\* subscribeCandles(marketId, interval, callback)
SubscribeCandles(marketId, interval, callback, plan) ==
    Subscribe(CANDLES \o <<":", interval>>, marketId, callback, 0, plan)

\* subscribeAccountOrders(marketId, accountIndex, authToken, callback)
SubscribeAccountOrders(marketId, accountIndex, token, callback, plan) ==
    LET channel == ACCOUNT_ORDERS \o <<"/", marketId>>
        storageKey == channel \o <<"/", accountIndex>>
        st == send(Begin(messageQueue), SubscribeFrame(storageKey, token),
                   isConnected, WriteMode(ws, sockets), plan)
    IN  /\ ~hung
        /\ Len(MapGet(subscriptions, storageKey)) < MaxHandlers
        /\ subscriptions' = MapPush(subscriptions, storageKey, callback)
        /\ messageQueue' = st.q
        /\ Observe("subscribe", storageKey, 0, st, <<>>, 0)
        /\ UNCHANGED <<ws, sockets, reconnectAttempts, isConnected, shouldReconnect,
                       isAuthenticated, heartbeatInterval, heartbeatDue,
                       lastPongTime, authToken, authRefreshCallback, promise,
                       reconnectTimers, pendingRefresh, now, hung, failures,
                   atClose>>

\* unsubscribe(channel, marketId): the method takes no handler, a third
\* argument of the caller is ignored
Unsubscribe(channel, marketId, callback, plan) ==
    LET key == subscriptionChannel(channel, marketId)
        st == send(Begin(messageQueue), UnsubscribeFrame(key), isConnected,
                   WriteMode(ws, sockets), plan)
    IN  /\ ~hung
        /\ subscriptions' = MapDelete(subscriptions, key)
        /\ messageQueue' = st.q
        /\ Observe("unsubscribe", key, 0, st, <<>>, 0)
        /\ atClose' = atClose \ {key}
        /\ UNCHANGED <<ws, sockets, reconnectAttempts, isConnected, shouldReconnect,
                       isAuthenticated, heartbeatInterval, heartbeatDue,
                       lastPongTime, authToken, authRefreshCallback, promise,
                       reconnectTimers, pendingRefresh, now, hung, failures>>

---------------------------------------------------------------------------
(* Time and the heartbeat *)

TimeStep == heartbeatIntervalMs \div TicksPerInterval
MaxTime == MaxTicks * TimeStep

\* time passes; a set interval timer fires when it is due
Tick ==
    /\ ~hung
    /\ now + TimeStep <= MaxTime
    /\ heartbeatInterval => now + TimeStep <= heartbeatDue
    /\ now' = now + TimeStep
    /\ Quiet("tick")
    /\ UNCHANGED <<ws, sockets, subscriptions, reconnectAttempts, isConnected,
                   shouldReconnect, isAuthenticated, messageQueue,
                   heartbeatInterval, heartbeatDue, lastPongTime, authToken,
                   authRefreshCallback, promise, reconnectTimers, pendingRefresh, hung,
                   failures,
                   atClose>>

\* timeSinceLastPong > 90000
pongOverdue(t, last) == t - last > pongTimeoutMs

\* the setInterval callback of startHeartbeat.  With this.ws null the call
\* this.ws.close() throws out of the callback and nothing is closed.
HeartbeatTick(plan) ==
    /\ ~hung
    /\ heartbeatInterval
    /\ now >= heartbeatDue
    /\ heartbeatDue' = heartbeatDue + heartbeatIntervalMs
    /\ IF isConnected
       THEN IF pongOverdue(now, lastPongTime)
            THEN /\ sockets' = closeSocket(sockets, ws)
                 /\ Observed("heartbeat", NoChannel, ws, Begin(messageQueue),
                             <<>>, 0, ws = 0)
                 /\ UNCHANGED messageQueue
            ELSE LET st == send(Begin(messageQueue), PingFrame, isConnected,
                                WriteMode(ws, sockets), plan)
                 IN  /\ messageQueue' = st.q
                     /\ Observe("heartbeat", NoChannel, ws, st, <<>>, 0)
                     /\ UNCHANGED sockets
       ELSE /\ Observe("heartbeat", NoChannel, ws, Begin(messageQueue), <<>>, 0)
            /\ UNCHANGED <<sockets, messageQueue>>
    /\ UNCHANGED <<ws, subscriptions, reconnectAttempts, isConnected,
                   shouldReconnect, isAuthenticated, heartbeatInterval,
                   lastPongTime, authToken, authRefreshCallback, promise, reconnectTimers,
                   pendingRefresh, now, hung, failures,
                   atClose>>

---------------------------------------------------------------------------
(* Inbound frames *)

RECURSIVE replaceFirst(_, _, _)
\* String.prototype.replace with a string pattern: the first occurrence only
replaceFirst(s, a, b) ==
    IF s = <<>> THEN <<>>
    ELSE IF Head(s) = a THEN <<b>> \o Tail(s)
    ELSE <<Head(s)>> \o replaceFirst(Tail(s), a, b)

includes(s, a) == \E i \in 1..Len(s) : s[i] = a

\* the callbacks _routeToCallbacks invokes for serverChannel, in order
routeToCallbacks(m, serverChannel) ==
    LET exact == MapGet(m, serverChannel)
    IN  IF exact = <<>> /\ includes(serverChannel, ":")
        THEN MapGet(m, replaceFirst(serverChannel, ":", "/"))
        ELSE exact

\* An inbound frame as handleMessage sees it.  kind is "text" for data that
\* JSON.parse rejects, "scalar" for data that parses to null or to a value
\* that is no object, and "object" otherwise.  type is "" when the object
\* has no type field and "num" when the field holds a number; "subscribed"
\* and "update" stand for the types that start with 'subscribed/' and
\* 'update/'.  channel is NoChannel when absent, error tells whether the
\* object has an error field.
Inbound(kind, t, c, e) == [kind |-> kind, type |-> t, channel |-> c, error |-> e]

Message(t, c) == Inbound("object", t, c, FALSE)

\* an exception is raised inside the try block: by JSON.parse, or by the
\* call of startsWith on a type that is no string
raises(message) ==
    \/ message.kind = "text"
    \/ /\ message.kind = "object"
       /\ message.type = "num"

\* the types handleMessage answers itself, returning before any routing
ControlTypes ==
    {"ping", "pong", "connected", "auth_success", "authenticated",
     "auth_failed", "auth_error"}

\* TRUE when handleMessage hands the frame to _routeToCallbacks
routed(message) ==
    /\ message.kind = "object"
    /\ ~raises(message)
    /\ message.type \notin ControlTypes
    /\ message.channel # NoChannel
    /\ \/ message.type \in {"subscribed", "update"}
       \/ ~message.error

\* resetsLastPong for every frame that parses to an object
resetsLastPongAlways(message) == message.kind = "object"

\* TRUE for the frames on which handleMessage sets lastPongTime
resetsLastPong(message) ==
    /\ message.kind = "object"
    /\ message.type \in {"ping", "pong"}

RECURSIVE forEachCallbackUntilThrow(_, _)
\* forEachCallback without the try/catch around the callback: the first
\* callback that throws ends the loop
forEachCallbackUntilThrow(cbs, throwers) ==
    IF cbs = <<>> THEN <<>>
    ELSE IF Head(cbs) \in throwers THEN <<Head(cbs)>>
    ELSE <<Head(cbs)>> \o forEachCallbackUntilThrow(Tail(cbs), throwers)

RECURSIVE forEachCallback(_, _)
\* callbacks.forEach(cb => { try { cb(message) } catch ... }): the callbacks
\* invoked, in order, when those in throwers throw
forEachCallback(cbs, throwers) ==
    IF cbs = <<>> THEN <<>>
    ELSE <<Head(cbs)>> \o forEachCallback(Tail(cbs), throwers)

\* ws.onmessage of socket s: handleMessage(event.data).  The try block spans
\* the whole body, so no exception leaves the handler.
HandleMessage(s, message, throwers, plan) ==
    /\ ~hung
    /\ sockets[s] \in {"open", "closing"}
    /\ LET object == message.kind = "object"
           isPing == object /\ message.type = "ping"
           st == IF isPing
                 THEN send(Begin(messageQueue), PongFrame, isConnected,
                           WriteMode(ws, sockets), plan)
                 ELSE Begin(messageQueue)
           cbs == IF routed(message)
                  THEN forEachCallback(
                           routeToCallbacks(subscriptions, message.channel),
                           throwers)
                  ELSE <<>>
       IN  /\ messageQueue' = st.q
           /\ lastPongTime' = IF resetsLastPong(message) THEN now
                              ELSE lastPongTime
           /\ isAuthenticated' =
                 IF object /\ message.type \in {"auth_success", "authenticated"}
                 THEN TRUE
                 ELSE IF object /\ message.type \in {"auth_failed", "auth_error"}
                 THEN FALSE
                 ELSE isAuthenticated
           /\ lastOp' = LastOp("message", message.channel, s, FALSE,
                               {h \in throwers : includes(cbs, h)})
           /\ wire' = st.w
           /\ dropped' = st.d
           /\ delivered' = cbs
           /\ lastDelay' = 0
    /\ UNCHANGED <<ws, sockets, subscriptions, reconnectAttempts, isConnected,
                   shouldReconnect, heartbeatInterval, heartbeatDue, authToken,
                   authRefreshCallback, promise, reconnectTimers, pendingRefresh, now,
                   hung, failures,
                   atClose>>

---------------------------------------------------------------------------
(* The client after construction.  connectWebSocket(useAuth) of the SDK    *)
(* passes a token and a refresh callback together, or neither.             *)

Init ==
    /\ ws = 0
    /\ sockets = [s \in SocketIds |-> "closed"]
    /\ subscriptions = <<>>
    /\ reconnectAttempts = 0
    /\ isConnected = FALSE
    /\ shouldReconnect = TRUE
    /\ isAuthenticated = FALSE
    /\ messageQueue = <<>>
    /\ heartbeatInterval = FALSE
    /\ heartbeatDue = 0
    /\ lastPongTime = 0
    /\ authRefreshCallback \in BOOLEAN
    /\ authToken = IF authRefreshCallback THEN 1 ELSE 0
    /\ reconnectTimers = 0
    /\ pendingRefresh = 0
    /\ now = 0
    /\ hung = FALSE
    /\ wire = <<>>
    /\ dropped = <<>>
    /\ delivered = <<>>
    /\ lastDelay = 0
    /\ failures = 0
    /\ atClose = {}
    /\ promise = [i \in 0..MaxSockets |-> NoPromise]
    /\ lastOp = [op |-> "new", key |-> NoChannel, sock |-> 0, had |-> 0,
                 threw |-> FALSE, caught |-> {}]

MarketId == "1"
AccountIndex == "42"
\* the token a caller passes to an auth-required subscribe: none of the client's own
CallerToken == MaxTokens + 1

\* The caller calls connect() on a client it has not connected, or has
\* disconnected (this.ws is null then)
CallerConnect ==
    /\ ws = 0
    /\ pendingRefresh = 0
    /\ Connect

\* no socket of the client is connecting, open or closing
NoLiveSocket == \A s \in SocketIds : ~Live(sockets[s])

\* Connection life cycle and registry, over a transport that accepts every
\* write made on an open socket; one socket at a time
Next ==
    \/ NoLiveSocket /\ CallerConnect
    \/ \E ok \in BOOLEAN : NoLiveSocket /\ ConnectResume(ok)
    \/ NoLiveSocket /\ ReconnectTimer
    \/ \E s \in SocketIds : OnOpen(s, {})
    \/ \E s \in SocketIds : OnError(s)
    \/ \E s \in SocketIds : OnClose(s, MaxFailures)
    \/ Disconnect
    \/ \E h \in Handlers : Subscribe(ORDERBOOK, MarketId, h, 0, {})
    \/ SubscribeAccountAllOrders(AccountIndex, CallerToken, "h1", {})
    \/ \E h \in Handlers : Unsubscribe(ORDERBOOK, MarketId, h, {})
    \/ Unsubscribe(ACCOUNT_ALL_ORDERS, AccountIndex, "h1", {})

Spec == Init /\ [][Next]_vars

\* The outbound queue over a transport whose writes may fail; one key, one
\* socket at a time
NextQueue ==
    \/ NoLiveSocket /\ CallerConnect
    \/ \E ok \in BOOLEAN : NoLiveSocket /\ ConnectResume(ok)
    \/ NoLiveSocket /\ ReconnectTimer
    \/ \E s \in SocketIds, plan \in Plans(MaxPlanIdx) : OnOpen(s, plan)
    \/ \E s \in SocketIds : OnClose(s, MaxFailures)
    \/ Disconnect
    \/ \E plan \in Plans(1) : Subscribe(ORDERBOOK, MarketId, "h1", 0, plan)
    \/ \E plan \in Plans(1) : Unsubscribe(ORDERBOOK, MarketId, "h1", plan)

SpecQueue == Init /\ [][NextQueue]_vars

\* Reconnect backoff: the life cycle alone, connect() callable at any time
NextBackoff ==
    \/ Connect
    \/ \E ok \in BOOLEAN : ConnectResume(ok)
    \/ ReconnectTimer
    \/ \E s \in SocketIds : OnOpen(s, {})
    \/ \E s \in SocketIds : OnClose(s, MaxAttempts)
    \/ Disconnect

SpecBackoff == Init /\ [][NextBackoff]_vars

\* Heartbeat: the life cycle with time, the interval timer and the
\* liveness frames of the server
NextHeartbeat ==
    \/ CallerConnect
    \/ \E ok \in BOOLEAN : ConnectResume(ok)
    \/ ReconnectTimer
    \/ \E s \in SocketIds : OnOpen(s, {})
    \/ \E s \in SocketIds : OnClose(s, MaxFailures)
    \/ Disconnect
    \/ Tick
    \/ HeartbeatTick({})
    \/ \E s \in SocketIds, type \in {"ping", "pong", "update"} :
          HandleMessage(s, Message(type, NoChannel), {}, {})

SpecHeartbeat == Init /\ [][NextHeartbeat]_vars

\* Routing: every shape of key the class registers, and for each the
\* channel strings a server may send for it
Interval == "1m"
Separators == {":", "/"}
ServerChannels ==
    {<<"order_book", a, MarketId>> : a \in Separators}
    \cup {<<"account_orders", a, MarketId, b, AccountIndex>> :
             a \in Separators, b \in Separators}
    \cup {<<"candles", a, Interval, b, MarketId>> :
             a \in Separators, b \in Separators}

NextRoute ==
    \/ NoLiveSocket /\ CallerConnect
    \/ \E s \in SocketIds : OnOpen(s, {})
    \/ \E h \in Handlers : isConnected /\ Subscribe(ORDERBOOK, MarketId, h, 0, {})
    \/ isConnected /\ SubscribeAccountOrders(MarketId, AccountIndex, CallerToken, "h1", {})
    \/ isConnected /\ SubscribeCandles(MarketId, Interval, "h1", {})
    \/ \E s \in SocketIds, c \in ServerChannels :
          HandleMessage(s, Message("update", c), {}, {})

SpecRoute == Init /\ [][NextRoute]_vars

\* Inbound frames of every form, well formed or not, to a client whose
\* callbacks may throw
InboundTypes == {"", "num", "update", "subscribed", "connected", "trade",
                 "auth_success", "auth_failed"}
InboundFrames ==
    {Inbound("text", "", NoChannel, FALSE), Inbound("scalar", "", NoChannel, FALSE)}
    \cup {Inbound("object", type, c, e) :
             type \in InboundTypes,
             c \in {NoChannel, subscriptionChannel(ORDERBOOK, MarketId)},
             e \in BOOLEAN}

NextInbound ==
    \/ NoLiveSocket /\ CallerConnect
    \/ \E s \in SocketIds : OnOpen(s, {})
    \/ \E s \in SocketIds : OnClose(s, MaxFailures)
    \/ Disconnect
    \/ \E h \in Handlers : Subscribe(ORDERBOOK, MarketId, h, 0, {})
    \/ \E s \in SocketIds, message \in InboundFrames, throwers \in SUBSET Handlers :
          HandleMessage(s, message, throwers, {})

SpecInbound == Init /\ [][NextInbound]_vars

\* subscribe with every kind of marketId, valid or not
MarketIds == {Undefined, Null, "", "0", MarketId}

NextParams ==
    \/ NoLiveSocket /\ CallerConnect
    \/ \E s \in SocketIds : OnOpen(s, {})
    \/ \E m \in MarketIds, h \in Handlers : Subscribe(ORDERBOOK, m, h, 0, {})
    \/ Unsubscribe(ORDERBOOK, "0", "h1", {})

SpecParams == Init /\ [][NextParams]_vars

---------------------------------------------------------------------------
(* Properties *)

CountFrames(w, type, channel) ==
    Cardinality({i \in 1..Len(w) : w[i].type = type /\ w[i].channel = channel})

CountSub(w, k) == CountFrames(w, "subscribe", k)

Frames(q) == {q[i] : i \in 1..Len(q)}

RECURSIVE removeOne(_, _)
\* cbs without the first occurrence of h
removeOne(cbs, h) ==
    IF cbs = <<>> THEN <<>>
    ELSE IF Head(cbs) = h THEN Tail(cbs)
    ELSE <<Head(cbs)>> \o removeOne(Tail(cbs), h)

RECURSIVE normalize(_)
\* s with ":" and "/" taken as the same separator
normalize(s) ==
    IF s = <<>> THEN <<>>
    ELSE <<IF Head(s) = ":" THEN "/" ELSE Head(s)>> \o normalize(Tail(s))

OrderBookKey == subscriptionChannel(ORDERBOOK, MarketId)
AllOrdersKey == subscriptionChannel(ACCOUNT_ALL_ORDERS, AccountIndex)

\* C1: after every transition into Open (the onopen of the client's current
\* socket) exactly one subscribe frame has been transmitted for each key of
\* the registry, counting the frames of resubscribeAll and those drained from
\* the queue.
C1_OneSubscribePerKeyOnOpen ==
    (lastOp.op = "onopen" /\ lastOp.sock = ws) =>
        \A k \in MapKeys(subscriptions) : CountSub(wire, k) = 1

\* C2: subscribe on a key that is already registered appends the handler and
\* neither transmits nor enqueues a frame.
C2_NoFrameForRegisteredKey ==
    [][(lastOp'.op = "subscribe" /\ lastOp'.had > 0) =>
          /\ \E h \in Handlers :
                MapGet(subscriptions', lastOp'.key)
                    = Append(MapGet(subscriptions, lastOp'.key), h)
          /\ wire' = <<>>
          /\ messageQueue' = messageQueue]_vars

C4_QueueWithinCapacity == Len(messageQueue) <= maxQueueSize

\* the queue is full and the last handler had to discard a frame
C4_Witness ==
    /\ Len(messageQueue) = maxQueueSize
    /\ dropped # <<>>

\* C5: a handler that has to queue a frame on a full queue evicts the oldest
\* queued frame and keeps the new frame at the tail, also when the frame is
\* queued because the write failed while connected.
C5_EvictOldestKeepNewest ==
    [][(lastOp'.op \in {"subscribe", "unsubscribe"} /\ dropped' # <<>>) =>
          /\ dropped' = <<Head(messageQueue)>>
          /\ messageQueue'
                = Append(Tail(messageQueue), Frame(lastOp'.op, lastOp'.key, 0))]_vars

\* C6: the delay of the reconnect scheduled by the k-th consecutive failure
\* since the last onopen (failures = k + 1) is
\* min(reconnectDelay * 2^k, maxReconnectDelay).
C6_BackoffDelay ==
    (lastOp.op = "onclose" /\ lastDelay > 0) =>
        /\ lastDelay = Min(reconnectDelay * Pow2(failures - 1), maxReconnectDelay)
        /\ lastDelay <= maxReconnectDelay
        /\ failures = 1 => lastDelay = reconnectDelay

\* a reconnect has been scheduled with the delay at its cap
C6_Witness ==
    /\ lastOp.op = "onclose"
    /\ failures >= 7
    /\ lastDelay = maxReconnectDelay

\* C7: a heartbeat tick on an open client that has seen no pong or ping for
\* more than 3 * heartbeatIntervalMs closes the socket and sends (or queues)
\* no ping; and the close event of that socket, arriving while the client is
\* still connected on it, schedules a reconnect.
C7_DeadConnectionForcesReconnect ==
    [][/\ (/\ lastOp'.op = "heartbeat"
           /\ isConnected /\ ws # 0 /\ sockets[ws] = "open"
           /\ now - lastPongTime > 3 * heartbeatIntervalMs) =>
              /\ sockets'[ws] = "closing"
              /\ wire' = <<>>
              /\ messageQueue' = messageQueue
       /\ \A s \in SocketIds :
             (/\ sockets[s] = "closing" /\ sockets'[s] = "closed"
              /\ isConnected /\ ws = s) =>
                 /\ reconnectTimers' = reconnectTimers + 1
                 /\ lastDelay' > 0]_vars

\* C8: after an unexpected close of the connection the keys registered at the
\* close stay registered through the reconnect, the next onopen transmits
\* exactly one subscribe frame for each, and no handler but unsubscribe
\* produces an unsubscribe frame for such a key.
C8_ResubscribedOnceAfterClose ==
    [][/\ lastOp'.op \in {"onclose", "timer", "resume", "onopen"} =>
             subscriptions' = subscriptions
       /\ lastOp'.op = "onopen" =>
             \A k \in atClose :
                 MapHas(subscriptions', k) /\ CountSub(wire', k) = 1
       /\ lastOp'.op # "unsubscribe" =>
             \A k \in atClose' :
                 CountFrames(wire' \o messageQueue', "unsubscribe", k)
                     <= CountFrames(messageQueue, "unsubscribe", k)]_vars

\* C9: a subscribe with a token made while disconnected transmits nothing;
\* the next onopen transmits exactly one auth frame and exactly one subscribe
\* frame for the key, the auth frame first.
C9_AuthThenSubscribeOnOpen ==
    [][/\ (lastOp'.op = "subscribe" /\ lastOp'.key = AllOrdersKey /\ ~isConnected) =>
             wire' = <<>>
       /\ (/\ lastOp'.op = "onopen"
           /\ MapHas(subscriptions, AllOrdersKey)
           /\ SubscribeFrame(AllOrdersKey, CallerToken) \in Frames(messageQueue)) =>
              /\ CountFrames(wire', "auth", NoChannel) = 1
              /\ CountSub(wire', AllOrdersKey) = 1
              /\ \A i, j \in 1..Len(wire') :
                    (/\ wire'[i].type = "auth"
                     /\ wire'[j].type = "subscribe"
                     /\ wire'[j].channel = AllOrdersKey) => i < j]_vars

\* C10: an inbound update whose channel equals a registered key, ":" and "/"
\* taken as the same separator, is dispatched to the callbacks of that key.
C10_RoutedUpToSeparator ==
    lastOp.op = "message" =>
        \A k \in MapKeys(subscriptions) :
            normalize(k) = normalize(lastOp.key) =>
                delivered = MapGet(subscriptions, k)

\* C11: as long as the caller has disconnected and not called connect()
\* again (shouldReconnect is FALSE exactly then), the client is not
\* connected, no heartbeat timer is set and no socket of the client is
\* connecting or open.
C11_NothingStartsAfterDisconnect ==
    ~shouldReconnect =>
        /\ ~isConnected
        /\ ~heartbeatInterval
        /\ \A s \in SocketIds : sockets[s] \notin {"connecting", "open"}

\* C12: at most one socket created by the client is connecting or open.
C12_AtMostOneLiveSocket ==
    Cardinality({s \in SocketIds : sockets[s] \in {"connecting", "open"}}) <= 1

\* C13: a close that finds the caller connected (no disconnect() since the
\* last connect()) schedules a reconnect, and a close after disconnect()
\* schedules none.
C13_CloseSchedulesReconnect ==
    [][lastOp'.op = "onclose" =>
          IF shouldReconnect
          THEN reconnectTimers' = reconnectTimers + 1
          ELSE reconnectTimers' = reconnectTimers]_vars

\* C14: the promise of a connect() of the caller is never rejected.
C14_CallerPromiseNeverRejected ==
    \A i \in 0..MaxSockets :
        promise[i].caller => promise[i].state # "rejected"

\* C15: an update for a registered key is delivered to every callback of the
\* key in registration order, whichever of them throw; no exception leaves
\* handleMessage and neither the connection nor the registry changes.
C15_DeliveredToAllInOrder ==
    [][\A s \in SocketIds, throwers \in SUBSET Handlers :
          HandleMessage(s, Message("update", OrderBookKey), throwers, {}) =>
              /\ delivered' = MapGet(subscriptions, OrderBookKey)
              /\ ~lastOp'.threw
              /\ subscriptions' = subscriptions
              /\ isConnected' = isConnected
              /\ sockets' = sockets /\ ws' = ws]_vars

\* an update reached two callbacks, the first of which threw
C15_Witness ==
    /\ lastOp.op = "message"
    /\ lastOp.key = OrderBookKey
    /\ delivered = <<"h1", "h2">>
    /\ "h1" \in lastOp.caught

\* C16: no exception leaves handleMessage, and a frame that is no JSON, no
\* object, or an object without a type field invokes no callback and
\* changes neither the connection, the registry nor the queue, also when it
\* names a registered channel.
C16_MalformedFrameDiscarded ==
    [][/\ lastOp'.op = "message" => ~lastOp'.threw
       /\ \A s \in SocketIds, message \in InboundFrames :
             (/\ \/ message.kind # "object"
                 \/ message.type = ""
              /\ HandleMessage(s, message, {}, {})) =>
                 /\ delivered' = <<>>
                 /\ subscriptions' = subscriptions
                 /\ messageQueue' = messageQueue
                 /\ isConnected' = isConnected
                 /\ isAuthenticated' = isAuthenticated]_vars

\* C17: on auth_failed the client marks itself unauthenticated and, when it
\* has a refresh callback, invokes it once.
C17_AuthFailedRefreshesOnce ==
    [][\A s \in SocketIds :
          HandleMessage(s, Message("auth_failed", NoChannel), {}, {}) =>
              /\ ~isAuthenticated'
              /\ authRefreshCallback => pendingRefresh' = pendingRefresh + 1]_vars

\* C18: unsubscribe for a key that is not registered changes neither the
\* registry, the queue nor the connection, and transmits nothing.
C18_UnsubscribeUnknownKeyIsNoOp ==
    [][(lastOp'.op = "unsubscribe" /\ lastOp'.had = 0) =>
          /\ wire' = <<>>
          /\ messageQueue' = messageQueue
          /\ subscriptions' = subscriptions
          /\ isConnected' = isConnected]_vars

\* C19: when the refresh callback awaited by connect() fails, connect()
\* creates no socket.
C19_NoConnectionAfterFailedRefresh ==
    [][ConnectResume(FALSE) =>
          \A s \in SocketIds :
              sockets'[s] = "connecting" => sockets[s] = "connecting"]_vars

\* C20: every subscribe frame that onopen transmits for the auth-required
\* key of the registry carries a token.
C20_ResubscribeCarriesToken ==
    (lastOp.op = "onopen" /\ MapHas(subscriptions, AllOrdersKey)) =>
        \A i \in 1..Len(wire) :
            (wire[i].type = "subscribe" /\ wire[i].channel = AllOrdersKey) =>
                wire[i].token # 0

\* C21: when onopen has nothing to send but the queue, the flush transmits
\* the frames at the head of the queue in their order and leaves the rest,
\* from the first frame whose write failed on, in the queue in their order.
C21_FlushStopsAtFailedFrame ==
    [][(/\ lastOp'.op = "onopen"
        /\ authToken = 0 /\ subscriptions = <<>>
        /\ ~hung') =>
          \E k \in 0..Len(messageQueue) :
              /\ wire' = SubSeq(messageQueue, 1, k)
              /\ messageQueue' = SubSeq(messageQueue, k + 1, Len(messageQueue))]_vars

C24_ReconnectAuthenticatesWithFreshToken ==
    [][/\ (lastOp'.op = "connect" \/ (lastOp'.op = "timer" /\ shouldReconnect)) =>
             IF reconnectAttempts > 0 /\ authRefreshCallback
             THEN /\ pendingRefresh' = pendingRefresh + 1
                  /\ sockets' = sockets
             ELSE /\ pendingRefresh' = pendingRefresh
                  /\ \E s \in SocketIds :
                        sockets[s] # "connecting" /\ sockets'[s] = "connecting"
       /\ lastOp'.op = "resume" =>
             /\ pendingRefresh' = pendingRefresh - 1
             /\ \E s \in SocketIds :
                   sockets[s] # "connecting" /\ sockets'[s] = "connecting"
             /\ authToken' # authToken => authToken' > authToken
       /\ (\E s \in SocketIds : sockets[s] = "connecting") =>
             authToken' = authToken
       /\ (lastOp'.op = "onopen" /\ authToken # 0) =>
             /\ wire' # <<>>
             /\ wire'[1] = AuthFrame(authToken)]_vars

\* a reconnect has opened and sent the auth frame with a refreshed token
C24_Witness ==
    /\ lastOp.op = "onopen"
    /\ authToken > 1
    /\ wire # <<>>
    /\ wire[1] = AuthFrame(authToken)

\* C25: every onopen returns: the flush of the queue ends.
C25_FlushTerminates == ~hung

\* C26: the close of a socket that is not the client's current socket, while
\* the current socket is open and the client connected, leaves the client
\* connected, the heartbeat timer set and schedules no reconnect.
C26_StaleCloseLeavesConnection ==
    [][(/\ lastOp'.op = "onclose"
        /\ lastOp'.sock # ws
        /\ isConnected /\ ws # 0 /\ sockets[ws] = "open"
        /\ heartbeatInterval) =>
          /\ isConnected'
          /\ heartbeatInterval'
          /\ reconnectTimers' = reconnectTimers]_vars

\* C27: the client is authenticated only while it is connected.
C27_AuthenticatedImpliesConnected == isAuthenticated => isConnected

\* C28: between handlers the heartbeat timer is set exactly when the client
\* is connected, and no ping frame is in the outbound queue.
C28_HeartbeatRunsIffConnected ==
    /\ ~hung => (heartbeatInterval <=> isConnected)
    /\ \A i \in 1..Len(messageQueue) : messageQueue[i].type # "ping"

\* C29: disconnect() leaves the registry and the queue empty and the client
\* neither connected nor authenticated; an onopen that finds both empty
\* transmits no frame but the auth frame; and a close event changes neither
\* the registry nor the queue.
C29_DisconnectClearsCloseKeeps ==
    [][/\ lastOp'.op = "disconnect" =>
             /\ subscriptions' = <<>>
             /\ messageQueue' = <<>>
             /\ ~isConnected'
             /\ ~isAuthenticated'
       /\ (lastOp'.op = "onopen" /\ subscriptions = <<>> /\ messageQueue = <<>>) =>
             \A i \in 1..Len(wire') : wire'[i].type = "auth"
       /\ lastOp'.op = "onclose" =>
             /\ subscriptions' = subscriptions
             /\ messageQueue' = messageQueue]_vars

\* disconnect() has discarded queued frames
C29_Witness ==
    /\ lastOp.op = "disconnect"
    /\ dropped # <<>>
    /\ subscriptions = <<>>
    /\ messageQueue = <<>>

\* C30: subscribe with marketId undefined, null or '' changes neither the
\* registry nor the queue and transmits nothing; subscribe with marketId 0
\* appends the callback to the key '<channel>/0' and sends or queues the
\* subscribe frame of that key.
C30_InvalidParamIgnoredZeroAccepted ==
    [][\A h \in Handlers :
          /\ \A m \in {Undefined, Null, ""} :
                Subscribe(ORDERBOOK, m, h, 0, {}) =>
                    /\ subscriptions' = subscriptions
                    /\ messageQueue' = messageQueue
                    /\ wire' = <<>>
          /\ Subscribe(ORDERBOOK, "0", h, 0, {}) =>
                LET key == <<"order_book", "/", "0">>
                IN  /\ MapGet(subscriptions', key)
                          = Append(MapGet(subscriptions, key), h)
                    /\ SubscribeFrame(key, 0) \in Frames(wire' \o messageQueue')]_vars

\* subscribe with marketId 0 has registered the key order_book/0
C30_Witness ==
    /\ lastOp.op = "subscribe"
    /\ lastOp.key = <<"order_book", "/", "0">>
    /\ MapHas(subscriptions, <<"order_book", "/", "0">>)
    /\ wire = <<SubscribeFrame(<<"order_book", "/", "0">>, 0)>>

====
